---- MODULE Spec2Model ----
(***************************************************************************)
(* The MACD analysis script src/app.py: calculate_macd, calculate_rsi,     *)
(* find_macd_crossovers, calculate_price_changes and the module-level      *)
(* pipeline that calls them.                                               *)
(*                                                                         *)
(* Rows of the data frame are numbered 1..N; the row number is the         *)
(* timestamp (the index of the downloaded frame is unique and ascending).  *)
(* Floating-point columns are modelled by exact numbers:                   *)
(*   - the EMA columns by integers scaled per row (row t holds the value   *)
(*     times K^(t-1), K = 13*27*5, which makes every division exact);      *)
(*   - RSI and the price changes by rationals with NaN and +-inf.          *)
(***************************************************************************)
EXTENDS Integers, Sequences, FiniteSets, TLC

VARIABLES pc, stock_symbol, Close, EMA12, EMA26, MACD, SignalLine, MACDHist,
          RSI, crossovers, changes, shown, called, table

vars == <<pc, stock_symbol, Close, EMA12, EMA26, MACD, SignalLine, MACDHist,
          RSI, crossovers, changes, shown, called, table>>

(***************************************************************************)
(* Bounds of the model.                                                    *)
(***************************************************************************)
\* longest series the whole pipeline is run on
MaxLen == 4
\* longest MACD / Signal Line columns find_macd_crossovers is run on alone
MaxCols == 4
\* longest series calculate_rsi and calculate_price_changes are run on alone
MaxRows == 47
\* limbs of a scaled integer
Limbs == 4

\* close prices of the pipeline runs: three price levels, chosen so that the
\* MACD can pass through exactly zero between a negative and a positive row
\* (closes 352, 1, 623 give MACD 0, <0, 0 on rows 1..3)
Prices == {1, 352, 623}

(***************************************************************************)
(* Program constants.                                                      *)
(***************************************************************************)
SpanFast == 12
SpanSlow == 26
SpanSignal == 9
RsiPeriod == 14
RsiScale == 100
Percent == 100
Horizons == <<5, 14, 30, 45>>

(***************************************************************************)
(* Exact integers wider than TLC's: little-endian limbs in base Base, the  *)
(* top limb signed (value = SUM d[i] * Base^(i-1), 0 <= d[i] < Base for    *)
(* i < Limbs).                                                             *)
(***************************************************************************)
Base == 1000 * 1000

RECURSIVE CarryIn(_, _)
CarryIn(x, i) == IF i = 1 THEN 0 ELSE (x[i-1] + CarryIn(x, i-1)) \div Base

Norm(x) ==
  [i \in 1..Limbs |-> IF i < Limbs THEN (x[i] + CarryIn(x, i)) % Base
                                  ELSE x[i] + CarryIn(x, i)]

BInt(n) == Norm([i \in 1..Limbs |-> IF i = 1 THEN n ELSE 0])
BAdd(a, b) == Norm([i \in 1..Limbs |-> a[i] + b[i]])
BSub(a, b) == Norm([i \in 1..Limbs |-> a[i] - b[i]])
\* k small (|k| < 2000)
BMul(a, k) == Norm([i \in 1..Limbs |-> a[i] * k])

RECURSIVE RemFrom(_, _, _)
RemFrom(a, k, i) == IF i > Limbs THEN 0 ELSE (RemFrom(a, k, i+1) * Base + a[i]) % k
\* exact division by a small k > 0
BDiv(a, k) == [i \in 1..Limbs |-> (RemFrom(a, k, i+1) * Base + a[i]) \div k]

BSign(a) == IF a[Limbs] < 0 THEN -1
            ELSE IF \A i \in 1..Limbs : a[i] = 0 THEN 0 ELSE 1

\* the per-row scale of the EMA columns
K == 13 * 27 * 5
RECURSIVE ScaleTo(_, _)
ScaleTo(x, t) == IF t = 1 THEN x ELSE BMul(ScaleTo(x, t-1), K)

(***************************************************************************)
(* Floating-point values of the RSI and price-change columns: a rational   *)
(* n/d in lowest terms (d > 0), NaN, or an infinity (n = 1 or -1).         *)
(***************************************************************************)
Abs(n) == IF n < 0 THEN -n ELSE n
Sgn(n) == IF n < 0 THEN -1 ELSE IF n = 0 THEN 0 ELSE 1

RECURSIVE Gcd(_, _)
Gcd(a, b) == IF b = 0 THEN a ELSE Gcd(b, a % b)

NaN == [k |-> "nan", n |-> 0, d |-> 1]
Inf(s) == [k |-> "inf", n |-> s, d |-> 1]
Fin(n, d) ==
  LET g == Gcd(Abs(n), d)
  IN  [k |-> "fin", n |-> n \div g, d |-> d \div g]
Num(n) == Fin(n, 1)

IsNaN(x) == x.k = "nan"
IsFin(x) == x.k = "fin"

FNeg(x) == IF x.k = "nan" THEN NaN ELSE [x EXCEPT !.n = -x.n]

FAdd(a, b) ==
  IF a.k = "nan" \/ b.k = "nan" THEN NaN
  ELSE IF a.k = "inf" /\ b.k = "inf" THEN (IF a.n = b.n THEN a ELSE NaN)
  ELSE IF a.k = "inf" THEN a
  ELSE IF b.k = "inf" THEN b
  ELSE Fin(a.n * b.d + b.n * a.d, a.d * b.d)

FSub(a, b) == FAdd(a, FNeg(b))

FMul(a, b) ==
  IF a.k = "nan" \/ b.k = "nan" THEN NaN
  ELSE IF a.k = "inf" \/ b.k = "inf"
       THEN (IF a.n = 0 \/ b.n = 0 THEN NaN ELSE Inf(Sgn(a.n) * Sgn(b.n)))
  ELSE Fin(a.n * b.n, a.d * b.d)

\* IEEE division: x/0 is an infinity for x # 0 and NaN for x = 0, x/inf is 0
FDiv(a, b) ==
  IF a.k = "nan" \/ b.k = "nan" THEN NaN
  ELSE IF a.k = "inf" THEN (IF b.k = "inf" THEN NaN
                            ELSE Inf(a.n * (IF b.n < 0 THEN -1 ELSE 1)))
  ELSE IF b.k = "inf" THEN Num(0)
  ELSE IF b.n = 0 THEN (IF a.n = 0 THEN NaN ELSE Inf(Sgn(a.n)))
  ELSE Fin(a.n * b.d * Sgn(b.n), a.d * Abs(b.n))

\* comparisons with NaN are false
FEq(a, b) == a.k # "nan" /\ b.k # "nan" /\ a = b
FAbs(x) == IF x.k = "nan" THEN NaN ELSE [x EXCEPT !.n = Abs(x.n)]

(***************************************************************************)
(* calculate_macd                                                          *)
(***************************************************************************)
\* a variant of EwmSeed: the average starts from zero, not from the first sample
EwmSeedZero(x) == BInt(0)

\* Series.ewm(span, adjust=False).mean(): y[1] = x[1],
\* y[t] = (2 x[t] + (span-1) y[t-1]) / (span+1), on the scaled columns
EwmSeed(x) == x[1]

RECURSIVE Ewm(_, _, _)
Ewm(x, span, n) ==
  IF n = 0 THEN <<>>
  ELSE IF n = 1 THEN <<EwmSeed(x)>>
  ELSE LET prev == Ewm(x, span, n-1)
       IN  Append(prev,
                  BDiv(BAdd(BMul(x[n], 2), BMul(BMul(prev[n-1], K), span-1)),
                       span+1))

\* the Close column on the scale of the EMA columns
ScaledClose(close) == [t \in 1..Len(close) |-> ScaleTo(BInt(close[t]), t)]

ColSub(a, b) == [t \in 1..Len(a) |-> BSub(a[t], b[t])]

Ema12Of(close) == Ewm(ScaledClose(close), SpanFast, Len(close))
Ema26Of(close) == Ewm(ScaledClose(close), SpanSlow, Len(close))
SignalOf(macd) == Ewm(macd, SpanSignal, Len(macd))

calculate_macd ==
  /\ pc = "macd"
  /\ EMA12' = Ema12Of(Close)
  /\ EMA26' = Ema26Of(Close)
  /\ MACD' = ColSub(EMA12', EMA26')
  /\ SignalLine' = SignalOf(MACD')
  /\ MACDHist' = ColSub(MACD', SignalLine')
  /\ called' = Append(called, "calculate_macd")
  /\ pc' = "rsi"
  /\ UNCHANGED <<stock_symbol, Close, RSI, crossovers, changes, shown, table>>

(***************************************************************************)
(* calculate_rsi                                                           *)
(***************************************************************************)
\* delta = Close.diff(1); gain = delta.where(delta > 0, 0).fillna(0)
Gain(close, t) ==
  IF t = 1 THEN 0
  ELSE IF close[t] - close[t-1] > 0 THEN close[t] - close[t-1] ELSE 0
\* loss = (-delta.where(delta < 0, 0)).fillna(0)
Loss(close, t) ==
  IF t = 1 THEN 0
  ELSE IF close[t] - close[t-1] < 0 THEN -(close[t] - close[t-1]) ELSE 0

\* rolling(window=period, min_periods=1): the rows of the window ending at t
Window(t, period) == (IF t - period + 1 < 1 THEN 1 ELSE t - period + 1)..t

GainCol(close) == [t \in 1..Len(close) |-> Gain(close, t)]
LossCol(close) == [t \in 1..Len(close) |-> Loss(close, t)]

RECURSIVE SumOver(_, _)
SumOver(col, S) ==
  IF S = {} THEN 0
  ELSE LET t == CHOOSE x \in S : TRUE
       IN  col[t] + SumOver(col, S \ {t})

RollingMean(col, t, period) ==
  FDiv(Num(SumOver(col, Window(t, period))), Num(Cardinality(Window(t, period))))

\* a variant of RsiValue: a zero avg_loss is left undefined instead of divided by
RsiValueGuarded(avg_gain, avg_loss) ==
  IF avg_loss = Num(0) THEN NaN
  ELSE FSub(Num(RsiScale), FDiv(Num(RsiScale), FAdd(Num(1), FDiv(avg_gain, avg_loss))))

\* rs = avg_gain / avg_loss; RSI = 100 - (100 / (1 + rs))
RsiValue(avg_gain, avg_loss) ==
  FSub(Num(RsiScale), FDiv(Num(RsiScale), FAdd(Num(1), FDiv(avg_gain, avg_loss))))

RsiOf(close, period) ==
  [t \in 1..Len(close) |->
     RsiValue(RollingMean(GainCol(close), t, period),
              RollingMean(LossCol(close), t, period))]

calculate_rsi ==
  /\ pc = "rsi"
  /\ RSI' = RsiOf(Close, RsiPeriod)
  /\ called' = Append(called, "calculate_rsi")
  /\ pc' = "find"
  /\ UNCHANGED <<stock_symbol, Close, EMA12, EMA26, MACD, SignalLine, MACDHist,
                 crossovers, changes, shown, table>>

(***************************************************************************)
(* find_macd_crossovers                                                    *)
(***************************************************************************)
\* a variant of MacdDiff: the operands swapped
MacdDiffReversed(macd, signal) == [t \in 1..Len(macd) |-> BSub(signal[t], macd[t])]

\* df['MACD Diff'] = df['MACD'] - df['Signal Line']
MacdDiff(macd, signal) == ColSub(macd, signal)

\* a variant of SignDiff: a sign of two values, zero counted as positive
SignDiffTwoValued(col) ==
  LET sign(x) == IF BSign(x) < 0 THEN -1 ELSE 1
  IN  [t \in 1..Len(col) |-> IF t = 1 THEN NaN ELSE Num(sign(col[t]) - sign(col[t-1]))]

\* col.apply(np.sign).diff(): NaN on the first row
SignDiff(col) ==
  [t \in 1..Len(col) |->
     IF t = 1 THEN NaN ELSE Num(BSign(col[t]) - BSign(col[t-1]))]

\* whether a row of a crossover column passes the filter  x.abs() == 2
IsCrossover(x) == FEq(FAbs(x), Num(2))

\* df[col.abs() == 2]: the rows that pass, in the order of the frame
RECURSIVE SelectRows(_, _)
SelectRows(x, n) ==
  IF n = 0 THEN <<>>
  ELSE IF IsCrossover(x[n]) THEN Append(SelectRows(x, n-1), n)
  ELSE SelectRows(x, n-1)

\* sort_index(): rows of equal index are copies of one row of the frame
RECURSIVE InsertRow(_, _)
InsertRow(s, r) ==
  IF s = <<>> THEN <<r>>
  ELSE IF r < Head(s) THEN <<r>> \o s
  ELSE <<Head(s)>> \o InsertRow(Tail(s), r)

RECURSIVE SortIndex(_)
SortIndex(s) == IF s = <<>> THEN <<>> ELSE InsertRow(SortIndex(Tail(s)), Head(s))

\* a variant of CrossoverType: the zero-line difference tested first
CrossoverTypeZeroFirst(sc, zc) ==
  IF FEq(zc, Num(2)) THEN "Bullish"
  ELSE IF FEq(zc, Num(-2)) THEN "Bearish"
  ELSE IF FEq(sc, Num(2)) THEN "Bullish"
  ELSE "Bearish"

\* the nested np.where of 'Crossover Type'
CrossoverType(sc, zc) ==
  IF FEq(sc, Num(2)) THEN "Bullish"
  ELSE IF FEq(sc, Num(-2)) THEN "Bearish"
  ELSE IF FEq(zc, Num(2)) THEN "Bullish"
  ELSE "Bearish"

\* a variant of CrossoverDescription: the signal-line difference tested first
DescriptionSignalFirst(sc, zc) ==
  IF FEq(FAbs(sc), Num(2)) THEN "MACD Crosses Signal Line" ELSE "MACD Crosses Zero Line"

\* the np.where of 'Crossover Description'
CrossoverDescription(sc, zc) ==
  IF IsCrossover(zc) THEN "MACD Crosses Zero Line" ELSE "MACD Crosses Signal Line"

\* a variant of DropDuplicated: the duplicated rows kept
KeepDuplicated(rows) == rows

\* crossovers[~crossovers.index.duplicated(keep='first')]
RECURSIVE DropDuplicated(_)
DropDuplicated(rows) ==
  IF rows = <<>> THEN <<>>
  ELSE LET n    == Len(rows)
           init == SubSeq(rows, 1, n-1)
       IN  IF \E i \in 1..(n-1) : rows[i].Date = rows[n].Date
           THEN DropDuplicated(init)
           ELSE Append(DropDuplicated(init), rows[n])

\* a variant of ConcatCrossovers: the signal-line rows left out
ZeroCrossoversOnly(zero_crossovers, signal_crossovers) == zero_crossovers

\* pd.concat([zero_crossovers, signal_crossovers]): the row numbers
ConcatCrossovers(zero_crossovers, signal_crossovers) ==
  zero_crossovers \o signal_crossovers

CrossoversOf(close, macd, signal) ==
  LET zeroX   == SignDiff(macd)
      signalX == SignDiff(MacdDiff(macd, signal))
      zero_crossovers   == SelectRows(zeroX, Len(zeroX))
      signal_crossovers == SelectRows(signalX, Len(signalX))
      idx     == SortIndex(ConcatCrossovers(zero_crossovers, signal_crossovers))
      rows    == [i \in 1..Len(idx) |->
                    [Date            |-> idx[i],
                     Close           |-> close[idx[i]],
                     MACDValue       |-> macd[idx[i]],
                     ZeroCrossover   |-> zeroX[idx[i]],
                     SignalCrossover |-> signalX[idx[i]],
                     Type            |-> CrossoverType(signalX[idx[i]], zeroX[idx[i]]),
                     Description     |-> CrossoverDescription(signalX[idx[i]],
                                                              zeroX[idx[i]])]]
  IN  DropDuplicated(rows)

find_macd_crossovers ==
  /\ pc = "find"
  /\ crossovers' = CrossoversOf(Close, MACD, SignalLine)
  /\ called' = Append(called, "find_macd_crossovers")
  /\ pc' = "changes"
  /\ UNCHANGED <<stock_symbol, Close, EMA12, EMA26, MACD, SignalLine, MACDHist,
                 RSI, changes, shown, table>>

(***************************************************************************)
(* calculate_price_changes                                                 *)
(***************************************************************************)
\* a variant of ShiftBack: shifted by one row too few
ShiftBackOneShort(close, days) ==
  [t \in 1..Len(close) |->
     IF t + days - 1 <= Len(close) THEN Num(close[t + days - 1]) ELSE NaN]

\* Close.shift(-days): row t holds the close of row t + days, NaN past the end
ShiftBack(close, days) ==
  [t \in 1..Len(close) |-> IF t + days <= Len(close) THEN Num(close[t + days]) ELSE NaN]

\* (Close.shift(-days) - Close) / Close * 100
PctChange(close, days) ==
  LET ahead == ShiftBack(close, days)
  IN  [t \in 1..Len(close) |->
         FMul(FDiv(FSub(ahead[t], Num(close[t])), Num(close[t])), Num(Percent))]

\* .reindex(crossovers.index), for each of the horizons
ChangesOf(close, events) ==
  LET column == [j \in 1..Len(Horizons) |-> PctChange(close, Horizons[j])]
  IN  [i \in 1..Len(events) |->
         [j \in 1..Len(Horizons) |-> column[j][events[i].Date]]]

calculate_price_changes ==
  /\ pc = "changes"
  /\ changes' = ChangesOf(Close, crossovers)
  /\ called' = Append(called, "calculate_price_changes")
  /\ pc' = "present"
  /\ UNCHANGED <<stock_symbol, Close, EMA12, EMA26, MACD, SignalLine, MACDHist,
                 RSI, crossovers, shown, table>>

(***************************************************************************)
(* The module-level pipeline (the script body, run once per page load).    *)
(***************************************************************************)
Empty == <<>>

\* what yf.download may return: any series of at most MaxLen rows, or none
PriceSeries == UNION {[1..n -> Prices] : n \in 0..MaxLen}

Init ==
  /\ pc = "start"
  /\ stock_symbol \in {"", "AAPL"}
  /\ Close = Empty /\ EMA12 = Empty /\ EMA26 = Empty /\ MACD = Empty
  /\ SignalLine = Empty /\ MACDHist = Empty /\ RSI = Empty
  /\ crossovers = Empty /\ changes = Empty /\ table = Empty
  /\ shown = "none"
  /\ called = Empty

\* if stock_symbol: ... else: st.info(...)
ShowInfo ==
  /\ pc = "start"
  /\ stock_symbol = ""
  /\ shown' = "info"
  /\ pc' = "done"
  /\ UNCHANGED <<stock_symbol, Close, EMA12, EMA26, MACD, SignalLine, MACDHist,
                 RSI, crossovers, changes, called, table>>

\* df = yf.download(stock_symbol, period='1y', interval='1d')
Download ==
  /\ pc = "start"
  /\ stock_symbol # ""
  /\ \E series \in PriceSeries : Close' = series
  /\ pc' = "downloaded"
  /\ UNCHANGED <<stock_symbol, EMA12, EMA26, MACD, SignalLine, MACDHist,
                 RSI, crossovers, changes, shown, called, table>>

\* a variant of CheckEmpty: the frame is not tested
CheckEmptySkipped ==
  /\ pc = "downloaded"
  /\ pc' = "macd" /\ shown' = shown
  /\ UNCHANGED <<stock_symbol, Close, EMA12, EMA26, MACD, SignalLine, MACDHist,
                 RSI, crossovers, changes, called, table>>

\* if not df.empty: ... else: st.error(...)
CheckEmpty ==
  /\ pc = "downloaded"
  /\ IF Len(Close) # 0
     THEN pc' = "macd" /\ shown' = shown
     ELSE pc' = "done" /\ shown' = "error"
  /\ UNCHANGED <<stock_symbol, Close, EMA12, EMA26, MACD, SignalLine, MACDHist,
                 RSI, crossovers, changes, called, table>>

\* crossovers.iloc[::-1]
RECURSIVE Reversed(_)
Reversed(s) == IF s = <<>> THEN <<>> ELSE Append(Reversed(Tail(s)), Head(s))

\* the two checkbox filters on 'Crossover Type'
RECURSIVE Filtered(_, _, _)
Filtered(rows, show_bullish, show_bearish) ==
  IF rows = <<>> THEN <<>>
  ELSE LET r    == Head(rows)
           rest == Filtered(Tail(rows), show_bullish, show_bearish)
       IN  IF (~show_bullish /\ r.Type = "Bullish") \/ (~show_bearish /\ r.Type = "Bearish")
           THEN rest ELSE <<r>> \o rest

\* the displayed cell of a change column: 'NA' for NaN, the number otherwise
\* (its rounding to two decimals is not modelled)
ChangeCell(x) == [na |-> IsNaN(x), value |-> x]

\* the table: the crossovers newest first, filtered, with their change columns
TableOf(rows, chg, show_bullish, show_bearish) ==
  LET joined == [i \in 1..Len(rows) |->
                   [Date        |-> rows[i].Date,
                    Type        |-> rows[i].Type,
                    Description |-> rows[i].Description,
                    Changes     |-> [j \in 1..Len(Horizons) |-> ChangeCell(chg[i][j])]]]
  IN  Filtered(Reversed(joined), show_bullish, show_bearish)

Present ==
  /\ pc = "present"
  /\ \E show_bullish \in BOOLEAN, show_bearish \in BOOLEAN :
       table' = TableOf(crossovers, changes, show_bullish, show_bearish)
  /\ shown' = "table"
  /\ pc' = "done"
  /\ UNCHANGED <<stock_symbol, Close, EMA12, EMA26, MACD, SignalLine, MACDHist,
                 RSI, crossovers, changes, called>>

Next ==
  \/ ShowInfo
  \/ Download
  \/ CheckEmpty
  \/ calculate_macd
  \/ calculate_rsi
  \/ find_macd_crossovers
  \/ calculate_price_changes
  \/ Present

Spec == Init /\ [][Next]_vars

(***************************************************************************)
(* find_macd_crossovers on its own: any MACD and Signal Line columns.      *)
(***************************************************************************)
\* every combination of signs of MACD and of MACD - Signal Line on a row
Signs == -1..1

InitDetector ==
  /\ pc = "find"
  /\ stock_symbol = "AAPL"
  /\ \E n \in 1..MaxCols :
       \E m \in [1..n -> Signs], d \in [1..n -> Signs] :
         /\ Close = [t \in 1..n |-> 1]
         /\ MACD = [t \in 1..n |-> BInt(m[t])]
         /\ SignalLine = [t \in 1..n |-> BInt(m[t] - d[t])]
  /\ MACDHist = ColSub(MACD, SignalLine)
  /\ EMA12 = Empty /\ EMA26 = Empty /\ RSI = Empty
  /\ crossovers = Empty /\ changes = Empty /\ table = Empty
  /\ shown = "none"
  /\ called = Empty

NextDetector == find_macd_crossovers

SpecDetector == InitDetector /\ [][NextDetector]_vars

(***************************************************************************)
(* calculate_rsi and calculate_price_changes on their own: long series.    *)
(***************************************************************************)
\* a series of n rows that moves by d1 a row up to its middle and by d2 a row
\* after it, shifted so that its lowest close is floor
Shape(n, d1, d2, t) ==
  LET b == n \div 2
  IN  d1 * (IF t - 1 < b THEN t - 1 ELSE b) + d2 * (IF t - 1 > b THEN t - 1 - b ELSE 0)

Bent(n, d1, d2, floor) ==
  LET low == CHOOSE v \in {Shape(n, d1, d2, t) : t \in 1..n} :
               \A t \in 1..n : v <= Shape(n, d1, d2, t)
  IN  [t \in 1..n |-> Shape(n, d1, d2, t) - low + floor]

LongSeries ==
  {Bent(n, d1, d2, floor) : n \in 1..MaxRows, d1 \in -1..1, d2 \in -1..1, floor \in 0..1}

InitRsi ==
  /\ pc = "rsi"
  /\ stock_symbol = "AAPL"
  /\ Close \in LongSeries
  /\ EMA12 = Empty /\ EMA26 = Empty /\ MACD = Empty
  /\ SignalLine = Empty /\ MACDHist = Empty /\ RSI = Empty
  /\ crossovers = Empty /\ changes = Empty /\ table = Empty
  /\ shown = "none"
  /\ called = Empty

NextRsi == calculate_rsi

SpecRsi == InitRsi /\ [][NextRsi]_vars

\* MACD columns that flip sign on every row (f = 0), never (f = 1) or once,
\* at row f, around a Signal Line of zero
Flipping(n, f) ==
  [t \in 1..n |-> IF f = 0 THEN (IF t % 2 = 0 THEN BInt(1) ELSE BInt(-1))
                  ELSE IF t < f THEN BInt(-1) ELSE BInt(1)]

InitChanges ==
  /\ pc = "find"
  /\ stock_symbol = "AAPL"
  /\ Close \in LongSeries
  /\ \E f \in 0..3 : MACD = Flipping(Len(Close), f)
  /\ SignalLine = [t \in 1..Len(Close) |-> BInt(0)]
  /\ MACDHist = ColSub(MACD, SignalLine)
  /\ EMA12 = Empty /\ EMA26 = Empty /\ RSI = Empty
  /\ crossovers = Empty /\ changes = Empty /\ table = Empty
  /\ shown = "none"
  /\ called = Empty

NextChanges == find_macd_crossovers \/ calculate_price_changes

SpecChanges == InitChanges /\ [][NextChanges]_vars

(***************************************************************************)
(* What the properties below read off a state.                             *)
(***************************************************************************)
Did(f) == \E i \in 1..Len(called) : called[i] = f

Rows == 1..Len(Close)
EventRows == {crossovers[i].Date : i \in 1..Len(crossovers)}

\* sign(MACD[t]) - sign(MACD[t-1]) and the same for MACD - Signal Line, t > 1
ZeroStep(t) == BSign(MACD[t]) - BSign(MACD[t-1])
SignalStep(t) ==
  BSign(BSub(MACD[t], SignalLine[t])) - BSign(BSub(MACD[t-1], SignalLine[t-1]))

ZeroFires(t) == t > 1 /\ ZeroStep(t) \in {-2, 2}
SignalFires(t) == t > 1 /\ SignalStep(t) \in {-2, 2}

(***************************************************************************)
(* C1: the list find_macd_crossovers returns has strictly increasing       *)
(* timestamps, also when both triggers fire on the same row, on every row. *)
(***************************************************************************)
C1_StrictlyIncreasing ==
  Did("find_macd_crossovers") =>
    \A i \in 1..Len(crossovers) : \A j \in 1..Len(crossovers) :
      i < j => crossovers[i].Date < crossovers[j].Date

\* both triggers fire on every row after the first, of at least three rows
C1_Witness ==
  /\ Did("find_macd_crossovers")
  /\ Len(Close) >= 3
  /\ \A t \in Rows : t > 1 => ZeroFires(t) /\ SignalFires(t)
  /\ Len(crossovers) = Len(Close) - 1

(***************************************************************************)
(* C2: every event's type follows the priority: Bullish if the signal-line *)
(* sign difference is +2, else Bearish if it is -2, else Bullish if the    *)
(* zero-line sign difference is +2, else Bearish; when both triggers fire  *)
(* the signal-line direction alone decides.                                *)
(***************************************************************************)
C2_TypePriority ==
  Did("find_macd_crossovers") =>
    \A i \in 1..Len(crossovers) :
      LET t == crossovers[i].Date
      IN  /\ t > 1
          /\ crossovers[i].Type =
               (IF SignalStep(t) = 2 THEN "Bullish"
                ELSE IF SignalStep(t) = -2 THEN "Bearish"
                ELSE IF ZeroStep(t) = 2 THEN "Bullish"
                ELSE "Bearish")
          /\ (ZeroFires(t) /\ SignalFires(t)) =>
               (crossovers[i].Type = "Bullish" <=> SignalStep(t) = 2)

\* an event on which the two triggers fire in opposite directions
C2_Witness ==
  /\ Did("find_macd_crossovers")
  /\ \E i \in 1..Len(crossovers) :
       /\ ZeroStep(crossovers[i].Date) = 2
       /\ SignalStep(crossovers[i].Date) = -2
       /\ crossovers[i].Type = "Bearish"

(***************************************************************************)
(* C3, as claimed: when both triggers fire on a row the event carries the  *)
(* signal-line trigger, and an event carries the zero-line trigger only    *)
(* when the signal-line trigger did not fire.                              *)
(***************************************************************************)
C3_SignalLabelWins ==
  Did("find_macd_crossovers") =>
    \A i \in 1..Len(crossovers) :
      LET t == crossovers[i].Date
      IN  /\ (ZeroFires(t) /\ SignalFires(t)) =>
               crossovers[i].Description = "MACD Crosses Signal Line"
          /\ crossovers[i].Description = "MACD Crosses Zero Line" => ~SignalFires(t)

(***************************************************************************)
(* C3, as amended: when both triggers fire on a row the event carries the  *)
(* zero-line trigger; an event carries the signal-line trigger only when   *)
(* the zero-line trigger did not fire on that row.                         *)
(***************************************************************************)
C3_ZeroLabelWins ==
  Did("find_macd_crossovers") =>
    \A i \in 1..Len(crossovers) :
      LET t == crossovers[i].Date
      IN  /\ (ZeroFires(t) /\ SignalFires(t)) =>
               crossovers[i].Description = "MACD Crosses Zero Line"
          /\ crossovers[i].Description = "MACD Crosses Signal Line" => ~ZeroFires(t)
          /\ crossovers[i].Description = "MACD Crosses Zero Line" => ZeroFires(t)

\* a pipeline run with an event on which both triggers fire
C3_Witness ==
  /\ Did("calculate_macd")
  /\ Did("find_macd_crossovers")
  /\ \E i \in 1..Len(crossovers) :
       ZeroFires(crossovers[i].Date) /\ SignalFires(crossovers[i].Date)

(***************************************************************************)
(* C4: an event is emitted at row t if and only if t has a predecessor and *)
(* the sign difference of MACD or of MACD - Signal Line between t-1 and t  *)
(* has absolute value 2; never for the first row.                          *)
(***************************************************************************)
C4_EventIffFlip ==
  Did("find_macd_crossovers") =>
    /\ EventRows = {t \in Rows : ZeroFires(t) \/ SignalFires(t)}
    /\ 1 \notin EventRows

\* events on some rows and none on a later row whose signs do not flip
C4_Witness ==
  /\ Did("find_macd_crossovers")
  /\ \E t \in Rows : t \in EventRows /\ ZeroFires(t) /\ ~SignalFires(t)
  /\ \E t \in Rows : t \in EventRows /\ SignalFires(t) /\ ~ZeroFires(t)
  /\ \E t \in Rows : t > 1 /\ t \notin EventRows

(***************************************************************************)
(* C5: the triggers an event row records, and the sign pairs of a step.    *)
(***************************************************************************)
ZeroTriggered(t) ==
  \E i \in 1..Len(crossovers) :
    crossovers[i].Date = t /\ crossovers[i].ZeroCrossover \in {Num(2), Num(-2)}
SignalTriggered(t) ==
  \E i \in 1..Len(crossovers) :
    crossovers[i].Date = t /\ crossovers[i].SignalCrossover \in {Num(2), Num(-2)}

HistSign(t) == BSign(BSub(MACD[t], SignalLine[t]))
\* between a non-zero sign and exactly zero
OneSided(a, b) == a # b /\ (a = 0 \/ b = 0)
\* directly between negative and positive
Direct(a, b) == a * b = -1

(***************************************************************************)
(* C5, as claimed: a transition between a non-zero sign and exactly zero   *)
(* across rows t-1 and t fires the trigger of that indicator, a 0 to 0     *)
(* transition does not; so negative, 0, positive over three rows fires.    *)
(***************************************************************************)
C5_OneSidedZeroFires ==
  Did("find_macd_crossovers") =>
    \A t \in Rows : t > 1 =>
      /\ OneSided(BSign(MACD[t-1]), BSign(MACD[t])) => ZeroTriggered(t)
      /\ OneSided(HistSign(t-1), HistSign(t)) => SignalTriggered(t)
      /\ (BSign(MACD[t-1]) = 0 /\ BSign(MACD[t]) = 0) => ~ZeroTriggered(t)
      /\ (HistSign(t-1) = 0 /\ HistSign(t) = 0) => ~SignalTriggered(t)

(***************************************************************************)
(* C5, as amended: a trigger fires on row t exactly when the sign of its   *)
(* indicator moves directly between negative and positive across rows t-1  *)
(* and t; a transition between a non-zero sign and exactly zero does not   *)
(* fire it, nor does 0 to 0, so negative, 0, positive over three rows      *)
(* fires no trigger of that indicator.                                     *)
(***************************************************************************)
C5_OnlyDirectFlipFires ==
  Did("find_macd_crossovers") =>
    \A t \in Rows :
      /\ ZeroTriggered(t) => t > 1 /\ Direct(BSign(MACD[t-1]), BSign(MACD[t]))
      /\ SignalTriggered(t) => t > 1 /\ Direct(HistSign(t-1), HistSign(t))
      /\ (t > 1 /\ Direct(BSign(MACD[t-1]), BSign(MACD[t]))) => ZeroTriggered(t)
      /\ (t > 1 /\ Direct(HistSign(t-1), HistSign(t))) => SignalTriggered(t)

\* a pipeline run whose MACD is negative, exactly 0, positive on three rows
\* in a row, with the zero-line trigger fired on none of them
C5_Witness ==
  /\ Did("calculate_macd")
  /\ Did("find_macd_crossovers")
  /\ \E t \in Rows :
       /\ t > 2
       /\ BSign(MACD[t-2]) = -1 /\ BSign(MACD[t-1]) = 0 /\ BSign(MACD[t]) = 1
       /\ ~ZeroTriggered(t-1) /\ ~ZeroTriggered(t)

(***************************************************************************)
(* C6, as claimed: for every event at row t and horizon h the change is    *)
(* undefined iff t + h is past the last row, and otherwise equals          *)
(* (close[t+h] - close[t]) / close[t] * 100, for every non-negative close. *)
(***************************************************************************)
C6_UndefinedIffPastEnd ==
  Did("calculate_price_changes") =>
    \A i \in 1..Len(crossovers) : \A j \in 1..Len(Horizons) :
      LET t == crossovers[i].Date
          h == Horizons[j]
          v == changes[i][j]
      IN  /\ IsNaN(v) <=> t + h > Len(Close)
          /\ t + h <= Len(Close) =>
               /\ IsFin(v)
               /\ v.n * Close[t] = Percent * (Close[t+h] - Close[t]) * v.d

(***************************************************************************)
(* C6, as amended: the same for every event whose close[t] is positive;    *)
(* when close[t] is 0 and t + h is a row, the change is NaN if close[t+h]  *)
(* is 0 as well and +inf otherwise.                                        *)
(***************************************************************************)
C6_PositiveClose ==
  Did("calculate_price_changes") =>
    \A i \in 1..Len(crossovers) : \A j \in 1..Len(Horizons) :
      LET t == crossovers[i].Date
          h == Horizons[j]
          v == changes[i][j]
      IN  /\ t + h > Len(Close) => IsNaN(v)
          /\ (t + h <= Len(Close) /\ Close[t] > 0) =>
               /\ IsFin(v)
               /\ v.n * Close[t] = Percent * (Close[t+h] - Close[t]) * v.d
          /\ (t + h <= Len(Close) /\ Close[t] = 0) =>
               v = (IF Close[t+h] = 0 THEN NaN ELSE Inf(1))

\* an event with every horizon inside the series and a non-zero change, and
\* an event with the 5-row horizon inside and the 14-row horizon outside
C6_Witness ==
  /\ Did("calculate_price_changes")
  /\ \E i \in 1..Len(crossovers) :
       /\ Close[crossovers[i].Date] > 0
       /\ \A j \in 1..Len(Horizons) : IsFin(changes[i][j]) /\ changes[i][j].n # 0
  /\ \E i \in 1..Len(crossovers) :
       /\ Close[crossovers[i].Date] > 0
       /\ IsFin(changes[i][1]) /\ IsNaN(changes[i][2])

(***************************************************************************)
(* C7: with avgGain and avgLoss the rolling means of row t: RSI[t] = 100   *)
(* when avgLoss = 0 and avgGain > 0; RSI[t] is undefined when both are 0;  *)
(* the first row's RSI is undefined.                                       *)
(***************************************************************************)
WindowGain(t) == SumOver(GainCol(Close), Window(t, RsiPeriod))
WindowLoss(t) == SumOver(LossCol(Close), Window(t, RsiPeriod))

C7_RsiDegenerate ==
  Did("calculate_rsi") =>
    /\ \A t \in Rows :
         /\ (WindowLoss(t) = 0 /\ WindowGain(t) > 0) => RSI[t] = Num(RsiScale)
         /\ (WindowLoss(t) = 0 /\ WindowGain(t) = 0) => IsNaN(RSI[t])
    /\ Rows # {} => IsNaN(RSI[1])

\* a series with a loss that has left the window of a later row of gains only
C7_Witness ==
  /\ Did("calculate_rsi")
  /\ \E t \in Rows :
       /\ t > RsiPeriod
       /\ WindowLoss(t) = 0 /\ WindowGain(t) > 0 /\ RSI[t] = Num(RsiScale)
       /\ \E u \in Rows : u > 1 /\ u < t /\ Close[u] < Close[u-1]
  /\ IsNaN(RSI[1])

(***************************************************************************)
(* C8: on an empty download the run reports the condition and ends without *)
(* calling any of the four functions; they run only on a non-empty series. *)
(***************************************************************************)
C8_EmptyIsTerminal ==
  /\ (pc \notin {"start", "downloaded"} /\ stock_symbol # "" /\ Len(Close) = 0) =>
       pc = "done" /\ shown = "error" /\ called = Empty
  /\ called # Empty => Len(Close) > 0

\* the run that ended on the error message
C8_Witness == pc = "done" /\ stock_symbol # "" /\ Len(Close) = 0 /\ shown = "error"

(***************************************************************************)
(* C9: on a series of one repeated close the pipeline yields EMA12 = EMA26 *)
(* = close, MACD = Signal Line = Histogram = 0 and RSI undefined on every  *)
(* row, and no crossover events.                                           *)
(***************************************************************************)
ConstantClose == Len(Close) >= 1 /\ \A t \in Rows : Close[t] = Close[1]

C9_ConstantSeries ==
  ConstantClose =>
    /\ Did("calculate_macd") =>
         \A t \in Rows :
           /\ EMA12[t] = ScaledClose(Close)[t]
           /\ EMA26[t] = ScaledClose(Close)[t]
           /\ BSign(MACD[t]) = 0
           /\ BSign(SignalLine[t]) = 0
           /\ BSign(MACDHist[t]) = 0
    /\ Did("calculate_rsi") => \A t \in Rows : IsNaN(RSI[t])
    /\ Did("find_macd_crossovers") => crossovers = Empty
    /\ shown = "table" => table = Empty

\* the finished run on the longest constant series
C9_Witness ==
  /\ ConstantClose
  /\ Len(Close) >= 3
  /\ pc = "done" /\ shown = "table"

(***************************************************************************)
(* C10: with the Signal Line the pipeline computes, a row on which both    *)
(* triggers fire has both flips in the same direction, so the type given   *)
(* by the signal-line-first priority agrees with the zero-line direction.  *)
(***************************************************************************)
C10_SameDirection ==
  (Did("calculate_macd") /\ Did("find_macd_crossovers")) =>
    /\ \A t \in Rows : t > 1 =>
         /\ ~(ZeroStep(t) = 2 /\ SignalStep(t) = -2)
         /\ ~(ZeroStep(t) = -2 /\ SignalStep(t) = 2)
    /\ \A i \in 1..Len(crossovers) :
         ZeroFires(crossovers[i].Date) =>
           (crossovers[i].Type = "Bullish" <=> ZeroStep(crossovers[i].Date) = 2)

\* a run with a rising and a falling row on which both triggers fire
C10_Witness ==
  /\ Did("calculate_macd")
  /\ Did("find_macd_crossovers")
  /\ \E i \in 1..Len(crossovers) :
       ZeroStep(crossovers[i].Date) = 2 /\ SignalStep(crossovers[i].Date) = 2
  /\ \E i \in 1..Len(crossovers) :
       ZeroStep(crossovers[i].Date) = -2 /\ SignalStep(crossovers[i].Date) = -2

====
